---- MODULE Spec2Model ----
(***************************************************************************)
(* AIDA backend: AIService proposal analysis (services/ai_service.py).     *)
(*                                                                         *)
(* Numbers are fixed-point hundredths: 0.3 is 30, -1.0 is -100.            *)
(* A proposal text is a sequence of whitespace-free tokens; a keyword      *)
(* (which holds no blank) occurs in the text exactly when it is a          *)
(* substring of one token.                                                 *)
(*                                                                         *)
(* _generate_summary (lines 188-205) and _generate_recommendations (lines  *)
(* 386-406) are written with the return statement and the except clause    *)
(* one indentation level too shallow; they are read here with the          *)
(* if / try / except / else structure of their four sibling functions.     *)
(***************************************************************************)
EXTENDS Integers, Sequences, FiniteSets, TLC

\* ------------------------------------------------------------------ bounds
MaxLen == 3

\* ------------------------------------------------------------- text model
Vocabulary == {"Improve", "risk", "funds", "voting", "security"}

Texts == UNION {[1..n -> Vocabulary] : n \in 0..MaxLen}

\* variant: the text is matched without lower-casing
LowerToken_identity(tok) == tok

\* str.lower() on one token
LowerToken(tok) == IF tok = "Improve" THEN "improve" ELSE tok

\* str.lower() on the text
Lower(t) == [i \in 1..Len(t) |-> LowerToken(t[i])]

\* the keywords of the source that are substrings of a (lower-case) token
KeywordsWithin(tok) ==
    CASE tok = "improve"  -> {"improve"}
      [] tok = "risk"     -> {"risk"}
      [] tok = "funds"    -> {"fund"}
      [] tok = "voting"   -> {"voting"}
      [] tok = "security" -> {"security"}
      [] OTHER            -> {}

\* Python's  word in text  (substring test; case-sensitive)
WordIn(word, t) == \E i \in 1..Len(t) : word \in KeywordsWithin(t[i])

\* any(word in text for word in words)
AnyWordIn(words, t) == \E k \in 1..Len(words) : WordIn(words[k], t)

RECURSIVE CountWordsIn(_, _)
\* sum(1 for word in words if word in text)
CountWordsIn(words, t) ==
    IF words = <<>> THEN 0
    ELSE (IF WordIn(Head(words), t) THEN 1 ELSE 0) + CountWordsIn(Tail(words), t)

\* random.uniform(a, b), sampled at both ends and the middle
Uniform(a, b) == {a, (a + b) \div 2, b}

\* ------------------------------------------------------------------ values
\* every value carried by the model is a record with a kind
NoValue == [kind |-> "none"]
Float(x) == [kind |-> "float", v |-> x]
Str(s) == [kind |-> "str", v |-> s]
StrList(l) == [kind |-> "list", v |-> l]

\* float('nan'): every ordered comparison with it is false
NaN == -999999

FloatLt(x, y) == x # NaN /\ y # NaN /\ x < y

\* builtin min(a, b): b when b < a, else a
PyMin(a, b) == IF FloatLt(b, a) THEN b ELSE a

\* builtin max(a, b): b when b > a, else a
PyMax(a, b) == IF FloatLt(a, b) THEN b ELSE a

\* ------------------------------------------------------ fallback responses
fallback_summaries == <<
    "This proposal aims to improve the DAO's governance structure by implementing new voting mechanisms.",
    "The proposal suggests reallocating treasury funds to optimize yield generation and risk management.",
    "This governance proposal focuses on enhancing security measures and implementing new safety protocols.",
    "The proposal recommends updating tokenomics to better align incentives and improve token utility.",
    "This proposal suggests expanding the DAO's presence across multiple blockchain networks." >>

fallback_key_points == <<
    <<"Improves governance efficiency", "Reduces voting complexity", "Enhances community participation">>,
    <<"Optimizes treasury allocation", "Increases yield potential", "Reduces risk exposure">>,
    <<"Enhances security protocols", "Implements new safety measures", "Protects user funds">>,
    <<"Updates token distribution", "Aligns incentives", "Improves token utility">>,
    <<"Expands cross-chain presence", "Increases accessibility", "Diversifies ecosystem">> >>

fallback_recommendations == <<
    "Consider the long-term impact on governance participation",
    "Evaluate the risk-reward profile of proposed changes",
    "Assess the technical feasibility of implementation",
    "Review the economic implications for token holders",
    "Analyze the cross-chain integration requirements" >>

\* random.choice(seq)
Choice(seq) == {seq[i] : i \in 1..Len(seq)}

\* ------------------------------------------------------ fallback sentiment
positive_words == <<"improve", "enhance", "optimize", "increase", "benefit", "positive">>
negative_words == <<"reduce", "decrease", "risk", "danger", "negative", "problem">>

\* the set of values _get_fallback_sentiment(text) can return
_get_fallback_sentiment(t) ==
    LET text_lower == Lower(t)
        positive_count == CountWordsIn(positive_words, text_lower)
        negative_count == CountWordsIn(negative_words, text_lower)
    IN  IF positive_count > negative_count THEN {Float(x) : x \in Uniform(30, 80)}
        ELSE IF negative_count > positive_count THEN {Float(x) : x \in Uniform(-80, -30)}
        ELSE {Float(x) : x \in Uniform(-20, 20)}

\* ------------------------------------------------------- fallback summary
_get_fallback_summary(t) ==
    LET text_lower == Lower(t)
    IN  IF AnyWordIn(<<"treasury", "fund", "allocation">>, text_lower)
        THEN {Str("This proposal focuses on treasury management and fund allocation strategies.")}
        ELSE IF AnyWordIn(<<"governance", "voting", "proposal">>, text_lower)
        THEN {Str("This proposal aims to improve governance mechanisms and voting processes.")}
        ELSE IF AnyWordIn(<<"security", "safety", "protection">>, text_lower)
        THEN {Str("This proposal enhances security measures and safety protocols.")}
        ELSE {Str(s) : s \in Choice(fallback_summaries)}

\* ---------------------------------------------------------- fallback risk
\* variant: the high band mapped to the medium score
risk_score_of_flat == [low |-> 20, medium |-> 50, high |-> 50]

risk_score_of == [low |-> 20, medium |-> 50, high |-> 80]

RiskRecord(level, factors) ==
    [kind |-> "dict", risk_level |-> level, risk_factors |-> factors,
     risk_score |-> risk_score_of[level]]

_get_fallback_risk_assessment(t) ==
    LET text_lower == Lower(t)
    IN  IF AnyWordIn(<<"fund", "money", "treasury", "allocation">>, text_lower)
        THEN {RiskRecord(l, <<"Financial impact", "Treasury exposure", "Market volatility">>) :
                l \in Choice(<<"medium", "high">>)}
        ELSE IF AnyWordIn(<<"security", "safety", "protection">>, text_lower)
        THEN {RiskRecord(l, <<"Implementation complexity", "Security considerations">>) :
                l \in Choice(<<"low", "medium">>)}
        ELSE {RiskRecord(l, <<"Standard governance risk", "Community impact">>) :
                l \in Choice(<<"low", "medium">>)}

\* -------------------------------------------------------- fallback impact
ImpactRecord(treasury_score, governance_score, community_score) ==
    [kind |-> "dict",
     treasury_impact   |-> [score |-> treasury_score,   description |-> "Moderate treasury impact"],
     governance_impact |-> [score |-> governance_score, description |-> "Moderate governance impact"],
     community_impact  |-> [score |-> community_score,  description |-> "Moderate community impact"]]

_get_fallback_impact_analysis(t) ==
    LET text_lower == Lower(t)
    IN  IF AnyWordIn(<<"treasury", "fund", "money">>, text_lower)
        THEN {ImpactRecord(a, b, c) :
                a \in Uniform(60, 90), b \in Uniform(30, 60), c \in Uniform(40, 70)}
        ELSE IF AnyWordIn(<<"governance", "voting">>, text_lower)
        THEN {ImpactRecord(a, b, c) :
                a \in Uniform(20, 50), b \in Uniform(70, 90), c \in Uniform(60, 80)}
        ELSE {ImpactRecord(a, b, c) :
                a \in Uniform(30, 60), b \in Uniform(40, 70), c \in Uniform(50, 80)}

\* ---------------------------------------------------- fallback key points
_get_fallback_key_points(t) ==
    LET text_lower == Lower(t)
    IN  IF AnyWordIn(<<"treasury", "fund", "allocation">>, text_lower)
        THEN {StrList(l) : l \in Choice(fallback_key_points)}
        ELSE IF AnyWordIn(<<"governance", "voting">>, text_lower)
        THEN {StrList(<<"Improves governance efficiency", "Enhances voting mechanisms",
                        "Increases community participation">>)}
        ELSE IF AnyWordIn(<<"security", "safety">>, text_lower)
        THEN {StrList(<<"Enhances security protocols", "Implements safety measures",
                        "Protects user assets">>)}
        ELSE {StrList(<<"Proposal analysis completed", "Key objectives identified",
                        "Impact assessment provided">>)}

\* ------------------------------------------------ fallback recommendations
\* dict.get('risk_level') on the risk assessment (None when the key is absent)
GetRiskLevel(risk_assessment) ==
    IF "risk_level" \in DOMAIN risk_assessment THEN risk_assessment.risk_level ELSE "None"

_get_fallback_recommendations(results) ==
    LET sentiment == IF Len(results) > 0 THEN results[1].v ELSE 0
        risk_assessment == IF Len(results) > 2 THEN results[3] ELSE [kind |-> "dict"]
        first == IF sentiment > 50
                 THEN <<"Consider voting in favor based on positive sentiment">>
                 ELSE IF sentiment < -50
                 THEN <<"Exercise caution due to negative sentiment">>
                 ELSE <<"Neutral sentiment - review proposal details carefully">>
        second == IF GetRiskLevel(risk_assessment) = "high"
                  THEN <<"High risk proposal - ensure thorough review">>
                  ELSE IF GetRiskLevel(risk_assessment) = "low"
                  THEN <<"Low risk proposal - standard review recommended">>
                  ELSE <<>>
    IN  {StrList(first \o second \o <<r>>) : r \in Choice(fallback_recommendations)}

\* ------------------------------------------------------ outcome prediction
\* probabilities the trained classifier can report for the "passed" class
Probabilities == {35, 100}

\* variant: the except branch answers with zeros instead of the neutral pair
_predict_outcome_zeros(fitted) ==
    IF fitted
    THEN {[kind |-> "dict", prediction |-> p,
           confidence |-> IF p > 100 - p THEN p ELSE 100 - p] : p \in Probabilities}
    ELSE {[kind |-> "dict", prediction |-> 0, confidence |-> 0]}

\* _predict_outcome is a plain (non-async) method; fitted is FALSE when
\* _train_models caught an error and left the vectorizer/classifier unfitted
_predict_outcome(fitted) ==
    IF fitted
    THEN {[kind |-> "dict", prediction |-> p,
           confidence |-> IF p > 100 - p THEN p ELSE 100 - p] : p \in Probabilities}
    ELSE {[kind |-> "dict", prediction |-> 50, confidence |-> 50]}

\* ------------------------------------------- text generator (primary call)
\* message contents the chat completion can answer with, per sub-operation
SentimentContents == {"0.75", "-2.5", "3", "nan", "positive"}
SummaryContents == {"The proposal reallocates treasury funds.", " "}
RiskJsonGood == "{\"risk_level\": \"high\", \"risk_factors\": [\"Treasury exposure\"], \"risk_score\": 0.9}"
RiskJsonOdd == "{\"risk_level\": \"critical\", \"risk_score\": 1.7}"
RiskContents == {RiskJsonGood, RiskJsonOdd, "medium"}
ImpactJsonGood == "{\"treasury_impact\": {\"score\": 0.8, \"description\": \"High\"}}"
ImpactContents == {ImpactJsonGood, "high"}
KeyPointsJsonGood == "[\"Improve governance\", \"Reduce costs\"]"
KeyPointsContents == {KeyPointsJsonGood, "Improve governance\nReduce costs"}
RecommendationsContents == {"Consider the risk-reward profile\nEvaluate market conditions", " "}

\* float(s): the strings of SentimentContents that Python parses
FloatLiterals == {"0.75", "-2.5", "3", "nan"}

\* float(content.strip())
PyFloat(s) ==
    CASE s = "0.75" -> 75
      [] s = "-2.5" -> -250
      [] s = "3"    -> 300
      [] s = "nan"  -> NaN

\* str.strip()
Strip(s) == IF s = " " THEN "" ELSE s

\* the contents json.loads accepts
JsonTexts == {RiskJsonGood, RiskJsonOdd, ImpactJsonGood, KeyPointsJsonGood}

\* json.loads(content.strip())
JsonLoads(s) ==
    CASE s = RiskJsonGood ->
            [kind |-> "dict", risk_level |-> "high",
             risk_factors |-> <<"Treasury exposure">>, risk_score |-> 90]
      [] s = RiskJsonOdd ->
            [kind |-> "dict", risk_level |-> "critical", risk_score |-> 170]
      [] s = ImpactJsonGood ->
            [kind |-> "dict", treasury_impact |-> [score |-> 80, description |-> "High"]]
      [] s = KeyPointsJsonGood ->
            StrList(<<"Improve governance", "Reduce costs">>)

\* [rec.strip() for rec in content.strip().split('\n') if rec.strip()]
SplitLines(s) ==
    CASE s = "Consider the risk-reward profile\nEvaluate market conditions" ->
            <<"Consider the risk-reward profile", "Evaluate market conditions">>
      [] s = " " -> <<>>

\* ---------------------------------------------------------- sub-operations
\* the task list of analyze_proposal, in order
tasks == <<"_analyze_sentiment", "_generate_summary", "_assess_risk",
           "_predict_outcome", "_analyze_impact">>

\* the sub-operations with a text-generator call and a fallback
GeneratorBacked == {"_analyze_sentiment", "_generate_summary", "_assess_risk",
                    "_analyze_impact", "_extract_key_points", "_generate_recommendations"}

SubOperations == GeneratorBacked \cup {"_predict_outcome"}

\* async def (calling it only creates a coroutine object) or plain def
IsCoroutineFunction(op) == op # "_predict_outcome"

\* arguments a direct caller passes to _generate_recommendations
AnalysisResults ==
    {<<>>}
    \cup {<<Float(s)>> : s \in {-80, 50, 80}}
    \cup {<<Float(s), NoValue, r>> :
            s \in {-80, 50, 80},
            r \in {RiskRecord("low", <<>>), RiskRecord("high", <<>>), [kind |-> "dict"]}}

VARIABLES
    openai_available,   \* self.openai_available
    trained,            \* _train_models fitted the vectorizer and the classifier
    text,               \* proposal_text
    analysis_results,   \* the results list handed to _generate_recommendations
    entry,              \* the operation the caller invoked ("none" before the call)
    pc,                 \* position of analyze_proposal
    error,              \* the exception analyze_proposal raised to its caller
    status,             \* per sub-operation: none, created, ready, calling, done
    ready,              \* the event loop's FIFO of scheduled tasks
    calls,              \* per sub-operation: primary calls issued
    response,           \* per sub-operation: what the primary call produced
    result,             \* per sub-operation: the value returned
    path,               \* per sub-operation: primary or fallback
    request,            \* the service operation invoked and its input data
    analysis,           \* what AIService.analyze_treasury_health returned
    reply,              \* what the service operation returned or raised
    log,                \* the requests served so far, each with its outcome
    analyses,           \* ProposalService.analyses
    proposals           \* ProposalService.proposals

vars == <<openai_available, trained, text, analysis_results, entry, pc, error,
          status, ready, calls, response, result, path,
          request, analysis, reply, log, analyses, proposals>>

\* the state of the scoring operations (DAO health, treasury health)
scoreVars == <<request, analysis, reply>>

\* the history of requests and the stores of ProposalService
storeVars == <<log, analyses, proposals>>

\* {} as a Python dict
EmptyDict == <<>>

NoResponse == "<none>"
Raised == "<exception>"

Init ==
    /\ openai_available \in BOOLEAN
    /\ trained \in BOOLEAN
    /\ text \in Texts
    /\ analysis_results = <<>>
    /\ entry = "none"
    /\ pc = "idle"
    /\ error = "none"
    /\ status = [op \in SubOperations |-> "none"]
    /\ ready = <<>>
    /\ calls = [op \in SubOperations |-> 0]
    /\ response = [op \in SubOperations |-> NoResponse]
    /\ result = [op \in SubOperations |-> NoValue]
    /\ path = [op \in SubOperations |-> "none"]
    /\ request = NoValue
    /\ analysis = NoValue
    /\ reply = NoValue
    /\ log = <<>>
    /\ analyses = EmptyDict
    /\ proposals = EmptyDict

\* the values the fallback of a sub-operation can return (results: the
\* analysis_results argument of _generate_recommendations)
Fallback(op, results) ==
    CASE op = "_analyze_sentiment"        -> _get_fallback_sentiment(text)
      [] op = "_generate_summary"         -> _get_fallback_summary(text)
      [] op = "_assess_risk"              -> _get_fallback_risk_assessment(text)
      [] op = "_analyze_impact"           -> _get_fallback_impact_analysis(text)
      [] op = "_extract_key_points"       -> _get_fallback_key_points(text)
      [] op = "_generate_recommendations" -> _get_fallback_recommendations(results)

\* the message contents the text generator can answer a sub-operation with
Contents(op) ==
    CASE op = "_analyze_sentiment"        -> SentimentContents
      [] op = "_generate_summary"         -> SummaryContents
      [] op = "_assess_risk"              -> RiskContents
      [] op = "_analyze_impact"           -> ImpactContents
      [] op = "_extract_key_points"       -> KeyPointsContents
      [] op = "_generate_recommendations" -> RecommendationsContents

\* the statements after the call, inside the try block, run without raising
Parses(op, content) ==
    CASE op = "_analyze_sentiment" -> Strip(content) \in FloatLiterals
      [] op \in {"_assess_risk", "_analyze_impact", "_extract_key_points"} ->
            Strip(content) \in JsonTexts
      [] OTHER -> TRUE

\* variant: the parsed score is returned unclamped
ClampSentiment_unclamped(score) == score

\* max(-1.0, min(1.0, score))
ClampSentiment(score) == PyMax(-100, PyMin(100, score))

\* the value the try block returns
PrimaryResult(op, content) ==
    CASE op = "_analyze_sentiment"        -> Float(ClampSentiment(PyFloat(Strip(content))))
      [] op = "_generate_summary"         -> Str(Strip(content))
      [] op = "_generate_recommendations" -> StrList(SplitLines(content))
      [] OTHER                            -> JsonLoads(Strip(content))

\* variant: the availability flag is not consulted
UsesPrimary_always(op) == TRUE

\* if self.openai_available:
UsesPrimary(op) == openai_available

\* return self._get_fallback_...(...)   (else branch and except branch)
ReturnFallback(op, results) ==
    \E v \in Fallback(op, results) :
        /\ result' = [result EXCEPT ![op] = v]
        /\ path' = [path EXCEPT ![op] = "fallback"]
        /\ status' = [status EXCEPT ![op] = "done"]

\* a sub-operation coroutine runs from its first statement to its first await
Start(op, results) ==
    IF UsesPrimary(op)
    THEN /\ calls' = [calls EXCEPT ![op] = @ + 1]
         /\ status' = [status EXCEPT ![op] = "calling"]
         /\ UNCHANGED <<result, path>>
    ELSE /\ ReturnFallback(op, results)
         /\ UNCHANGED calls

\* variant: the except branch issues the primary call again
HandlePrimaryFailure_retry(op) ==
    /\ calls' = [calls EXCEPT ![op] = @ + 1]
    /\ UNCHANGED <<status, result, path>>

\* variant: the except branch logs and re-raises
HandlePrimaryFailure_reraise(op) ==
    /\ status' = [status EXCEPT ![op] = "raised"]
    /\ UNCHANGED <<calls, result, path>>

\* except Exception as e: log, then return the fallback
HandlePrimaryFailure(op) ==
    /\ ReturnFallback(op, analysis_results)
    /\ UNCHANGED calls

\* lines 120-126: the task list is built; a coroutine function yields a
\* coroutine object, the plain method _predict_outcome runs on the spot
AnalyzeProposal ==
    /\ entry = "none"
    /\ entry' = "analyze_proposal"
    /\ pc' = "gather"
    /\ \E p \in _predict_outcome(trained) :
         /\ status' = [op \in SubOperations |->
                         IF \E k \in 1..Len(tasks) : tasks[k] = op
                         THEN (IF IsCoroutineFunction(op) THEN "created" ELSE "done")
                         ELSE status[op]]
         /\ result' = [result EXCEPT !["_predict_outcome"] = p]
         /\ path' = [path EXCEPT !["_predict_outcome"] = "local"]
    /\ UNCHANGED <<openai_available, trained, text, analysis_results, error,
                   ready, calls, response>>
    /\ UNCHANGED scoreVars
    /\ UNCHANGED storeVars

\* index of the first entry of the task list that is no awaitable (0: none)
FirstNonAwaitable ==
    IF \E k \in 1..Len(tasks) : ~IsCoroutineFunction(tasks[k])
    THEN CHOOSE k \in 1..Len(tasks) :
            /\ ~IsCoroutineFunction(tasks[k])
            /\ \A j \in 1..(k - 1) : IsCoroutineFunction(tasks[j])
    ELSE 0

\* line 128, asyncio.gather(*tasks): the arguments are wrapped into tasks one
\* by one; an argument that is a dict raises TypeError out of gather, which
\* lines 140-142 log and re-raise.  The tasks already created stay scheduled.
Gather ==
    /\ pc = "gather"
    /\ LET k == FirstNonAwaitable
           n == IF k = 0 THEN Len(tasks) ELSE k - 1
       IN  /\ ready' = ready \o SubSeq(tasks, 1, n)
           /\ status' = [op \in SubOperations |->
                           IF \E j \in 1..n : tasks[j] = op THEN "ready" ELSE status[op]]
           /\ pc' = IF k = 0 THEN "awaiting" ELSE "raised"
           /\ error' = IF k = 0 THEN error ELSE "TypeError"
    /\ UNCHANGED <<openai_available, trained, text, analysis_results, entry,
                   calls, response, result, path>>
    /\ UNCHANGED scoreVars
    /\ UNCHANGED storeVars

\* the event loop runs the first scheduled task up to its first await
RunTask ==
    /\ pc # "gather"
    /\ ready # <<>>
    /\ Start(Head(ready), analysis_results)
    /\ ready' = Tail(ready)
    /\ UNCHANGED <<openai_available, trained, text, analysis_results, entry, pc,
                   error, response>>
    /\ UNCHANGED scoreVars
    /\ UNCHANGED storeVars

\* a caller awaits one text-generator-backed sub-operation directly
CallSubOperation(op) ==
    /\ entry = "none"
    /\ entry' = op
    /\ \E results \in (IF op = "_generate_recommendations"
                       THEN AnalysisResults ELSE {analysis_results}) :
         /\ analysis_results' = results
         /\ Start(op, results)
    /\ UNCHANGED <<openai_available, trained, text, pc, error, ready, response>>
    /\ UNCHANGED scoreVars
    /\ UNCHANGED storeVars

\* variant: the prediction fits the classifier before using it
CallPredictOutcome_refits ==
    /\ entry = "none"
    /\ entry' = "_predict_outcome"
    /\ trained' = TRUE
    /\ \E p \in _predict_outcome(TRUE) :
         /\ result' = [result EXCEPT !["_predict_outcome"] = p]
         /\ path' = [path EXCEPT !["_predict_outcome"] = "local"]
         /\ status' = [status EXCEPT !["_predict_outcome"] = "done"]
    /\ UNCHANGED <<openai_available, text, analysis_results, pc, error,
                   ready, calls, response>>
    /\ UNCHANGED scoreVars
    /\ UNCHANGED storeVars

\* a caller invokes _predict_outcome directly (lines 270-297)
CallPredictOutcome ==
    /\ entry = "none"
    /\ entry' = "_predict_outcome"
    /\ \E p \in _predict_outcome(trained) :
         /\ result' = [result EXCEPT !["_predict_outcome"] = p]
         /\ path' = [path EXCEPT !["_predict_outcome"] = "local"]
         /\ status' = [status EXCEPT !["_predict_outcome"] = "done"]
    /\ UNCHANGED <<openai_available, trained, text, analysis_results, pc, error,
                   ready, calls, response>>
    /\ UNCHANGED scoreVars
    /\ UNCHANGED storeVars

\* chat.completions.create returns a message with the given content
PrimaryReturns(op, content) ==
    /\ status[op] = "calling"
    /\ response' = [response EXCEPT ![op] = content]
    /\ IF Parses(op, content)
       THEN /\ result' = [result EXCEPT ![op] = PrimaryResult(op, content)]
            /\ path' = [path EXCEPT ![op] = "primary"]
            /\ status' = [status EXCEPT ![op] = "done"]
            /\ UNCHANGED calls
       ELSE HandlePrimaryFailure(op)
    /\ UNCHANGED <<openai_available, trained, text, analysis_results, entry, pc,
                   error, ready>>
    /\ UNCHANGED scoreVars
    /\ UNCHANGED storeVars

\* chat.completions.create raises (network error, API error, ...)
PrimaryRaises(op) ==
    /\ status[op] = "calling"
    /\ response' = [response EXCEPT ![op] = Raised]
    /\ HandlePrimaryFailure(op)
    /\ UNCHANGED <<openai_available, trained, text, analysis_results, entry, pc,
                   error, ready>>
    /\ UNCHANGED scoreVars
    /\ UNCHANGED storeVars

Next ==
    \/ AnalyzeProposal
    \/ Gather
    \/ RunTask
    \/ \E op \in GeneratorBacked : CallSubOperation(op)
    \/ CallPredictOutcome
    \/ \E op \in GeneratorBacked : \E content \in Contents(op) : PrimaryReturns(op, content)
    \/ \E op \in GeneratorBacked : PrimaryRaises(op)

Spec == Init /\ [][Next]_vars

\* the event loop keeps running the program's own steps; nothing obliges the
\* text generator to answer
FairSpec == Spec /\ WF_vars(Gather) /\ WF_vars(RunTask)

\* lines 130-139: the keys of the record analyze_proposal returns
analysis_record_keys ==
    {"sentiment_score", "summary", "risk_assessment", "prediction",
     "impact_analysis", "confidence", "key_points", "recommendations"}

\* ======================================================================
\* Scoring: AIService.analyze_treasury_health and DAOService
\* ======================================================================

\* Bounds of the portfolios drawn as input
MaxAssets == 4
MaxValue == 2

\* The scoring code computes with Python floats; the model computes with
\* exact fractions <<n, d>> in lowest terms, d > 0.
RECURSIVE GCD(_, _)
GCD(a, b) == IF b = 0 THEN a ELSE GCD(b, a % b)

Abs(n) == IF n < 0 THEN -n ELSE n

Rat(n, d) == LET g == GCD(Abs(n), d) IN <<n \div g, d \div g>>

RAdd(x, y) == Rat(x[1] * y[2] + y[1] * x[2], x[2] * y[2])

RSub(x, y) == Rat(x[1] * y[2] - y[1] * x[2], x[2] * y[2])

RMul(x, y) == Rat(x[1] * y[1], x[2] * y[2])

\* x / y for y # 0 (Python raises ZeroDivisionError otherwise; the callers
\* below test the divisor first)
RDiv(x, y) ==
    IF y[1] > 0 THEN Rat(x[1] * y[2], x[2] * y[1])
    ELSE Rat(-(x[1] * y[2]), x[2] * (-y[1]))

RLt(x, y) == x[1] * y[2] < y[1] * x[2]

\* Python's min(x, y) and max(x, y): the first argument wins a tie
RMin(x, y) == IF RLt(y, x) THEN y ELSE x

RMax(x, y) == IF RLt(x, y) THEN y ELSE x

\* min(1.0, max(0.0, x))
Clamp01(x) == RMin(<<1, 1>>, RMax(<<0, 1>>, x))

\* dict.get(key, default)
Get(table, key, default) == IF key \in DOMAIN table THEN table[key] ELSE default

\* the asset symbols drawn as input ("XYZ": a symbol neither table knows)
Symbols == {"USDC", "UNI", "XYZ"}

Holdings == [symbol : Symbols, value_usd : 0..MaxValue]

Portfolios == UNION {[1..n -> Holdings] : n \in 0..MaxAssets}

\* lines 489-493
risk_scores ==
    [s \in {"USDC", "USDT", "DAI", "ETH", "BTC", "UNI", "AAVE", "COMP"} |->
        CASE s \in {"USDC", "USDT", "DAI"} -> Rat(1, 10)
          [] s = "ETH" -> Rat(6, 10)
          [] s = "BTC" -> Rat(7, 10)
          [] s \in {"UNI", "AAVE", "COMP"} -> Rat(8, 10)]

\* variant: AAVE and COMP are as liquid as UNI
liquidity_scores_flat ==
    [s \in {"USDC", "USDT", "DAI", "ETH", "BTC", "UNI", "AAVE", "COMP"} |->
        CASE s \in {"USDC", "USDT", "DAI"} -> Rat(1, 1)
          [] s \in {"ETH", "BTC"} -> Rat(9, 10)
          [] s \in {"UNI", "AAVE", "COMP"} -> Rat(7, 10)]

\* lines 515-519
liquidity_scores ==
    [s \in {"USDC", "USDT", "DAI", "ETH", "BTC", "UNI", "AAVE", "COMP"} |->
        CASE s \in {"USDC", "USDT", "DAI"} -> Rat(1, 1)
          [] s \in {"ETH", "BTC"} -> Rat(9, 10)
          [] s = "UNI" -> Rat(7, 10)
          [] s \in {"AAVE", "COMP"} -> Rat(6, 10)]

\* sum(asset.get('value_usd', 0) for asset in assets)
RECURSIVE TotalValue(_)
TotalValue(assets) ==
    IF assets = <<>> THEN 0
    ELSE TotalValue(SubSeq(assets, 1, Len(assets) - 1)) + assets[Len(assets)].value_usd

\* the loop of lines 500-504 and 526-530: the value-weighted mean of the
\* table's scores, unknown symbols counting 0.5
RECURSIVE Weighted(_, _, _)
Weighted(assets, total_value, table) ==
    IF assets = <<>> THEN <<0, 1>>
    ELSE LET asset == assets[Len(assets)]
         IN  RAdd(Weighted(SubSeq(assets, 1, Len(assets) - 1), total_value, table),
                  RMul(RDiv(<<asset.value_usd, 1>>, <<total_value, 1>>),
                       Get(table, asset.symbol, Rat(1, 2))))

\* variant: the holdings' values weigh in without being divided by the total
RECURSIVE Unweighted(_, _)
Unweighted(assets, table) ==
    IF assets = <<>> THEN <<0, 1>>
    ELSE LET asset == assets[Len(assets)]
         IN  RAdd(Unweighted(SubSeq(assets, 1, Len(assets) - 1), table),
                  RMul(<<asset.value_usd, 1>>, Get(table, asset.symbol, Rat(1, 2))))

\* variant: the risk is the sum of value times risk, capped at 1
_calculate_treasury_risk_unweighted(assets) ==
    LET total_value == TotalValue(assets)
    IN  IF total_value = 0 THEN Rat(1, 2)
        ELSE RMin(<<1, 1>>, Unweighted(assets, risk_scores))

\* lines 485-509
_calculate_treasury_risk(assets) ==
    LET total_value == TotalValue(assets)
    IN  IF total_value = 0 THEN Rat(1, 2)
        ELSE RMin(<<1, 1>>, Weighted(assets, total_value, risk_scores))

\* variant: the liquidity is the sum of value times liquidity
_calculate_liquidity_score_unweighted(assets) ==
    LET total_value == TotalValue(assets)
    IN  IF total_value = 0 THEN Rat(1, 2)
        ELSE Unweighted(assets, liquidity_scores)

\* lines 511-535
_calculate_liquidity_score(assets) ==
    LET total_value == TotalValue(assets)
    IN  IF total_value = 0 THEN Rat(1, 2)
        ELSE RMin(<<1, 1>>, Weighted(assets, total_value, liquidity_scores))

RECURSIVE Sum(_)
Sum(numbers) ==
    IF numbers = <<>> THEN <<0, 1>>
    ELSE RAdd(Sum(SubSeq(numbers, 1, Len(numbers) - 1)), numbers[Len(numbers)])

\* variant: the shares are not squared
concentrations_plain(assets, total_value) ==
    [i \in 1..Len(assets) |-> RDiv(<<assets[i].value_usd, 1>>, <<total_value, 1>>)]

\* line 459: the squared share of every holding
concentrations(assets, total_value) ==
    [i \in 1..Len(assets) |->
        LET share == RDiv(<<assets[i].value_usd, 1>>, <<total_value, 1>>)
        IN  RMul(share, share)]

\* variant: the index itself is the score
diversification_score_hhi(hhi) == hhi

\* line 461
diversification_score(hhi) == RSub(<<1, 1>>, hhi)

\* lines 537-554
_generate_treasury_recommendations(diversification, risk, liquidity) ==
    LET recommendations ==
            (IF RLt(diversification, Rat(3, 10))
             THEN <<"Consider diversifying treasury holdings to reduce concentration risk">>
             ELSE <<>>)
            \o (IF RLt(Rat(7, 10), risk)
                THEN <<"High risk detected - consider increasing stablecoin allocation">>
                ELSE <<>>)
            \o (IF RLt(liquidity, Rat(6, 10))
                THEN <<"Low liquidity detected - ensure sufficient liquid assets for operations">>
                ELSE <<>>)
    IN  IF recommendations = <<>>
        THEN <<"Treasury appears well-balanced - maintain current allocation strategy">>
        ELSE recommendations

\* sorted(assets, key=value_usd, reverse=True): stable, largest value first
RECURSIVE SortedByValue(_)
SortedByValue(assets) ==
    IF assets = <<>> THEN <<>>
    ELSE LET rest == SortedByValue(SubSeq(assets, 1, Len(assets) - 1))
             a == assets[Len(assets)]
             k == Cardinality({i \in 1..Len(rest) : rest[i].value_usd >= a.value_usd})
         IN  SubSeq(rest, 1, k) \o <<a>> \o SubSeq(rest, k + 1, Len(rest))

\* seq[:n]
FirstN(seq, n) == SubSeq(seq, 1, IF Len(seq) < n THEN Len(seq) ELSE n)

\* lines 448-483, for treasury_data = {'assets': assets}
analyze_treasury_health(assets) ==
    LET total_value == TotalValue(assets)
        hhi == Sum(concentrations(assets, total_value))
        risk == _calculate_treasury_risk(assets)
        liquidity == _calculate_liquidity_score(assets)
    IN  IF total_value = 0
        THEN [kind |-> "dict", error |-> "No treasury data available"]
        ELSE [kind |-> "dict",
              diversification_score |-> diversification_score(hhi),
              risk_score |-> risk,
              liquidity_score |-> liquidity,
              recommendations |->
                  _generate_treasury_recommendations(diversification_score(hhi),
                                                     risk, liquidity),
              top_holdings |-> FirstN(SortedByValue(assets), 5)]

\* ---------------------------------------------------------------- DAOService

\* variant: the weights of success rate and participation change places
_analyze_governance_health_swapped(dao_data) ==
    LET proposal_success_rate ==
            RDiv(<<dao_data.passed_proposals, 1>>,
                 RMax(<<dao_data.total_proposals, 1>>, <<1, 1>>))
        voter_participation == dao_data.avg_voter_participation
        activity_level ==
            RMin(Rat(dao_data.recent_activity.proposals_last_30_days, 10), <<1, 1>>)
        governance_score ==
            RAdd(RAdd(RMul(proposal_success_rate, Rat(4, 10)),
                      RMul(voter_participation, Rat(3, 10))),
                 RMul(activity_level, Rat(3, 10)))
    IN  Clamp01(governance_score)

\* lines 95-113 (no step of the try block can raise on a well-formed
\* dao_data, so the except branch's 0.5 is never returned)
_analyze_governance_health(dao_data) ==
    LET proposal_success_rate ==
            RDiv(<<dao_data.passed_proposals, 1>>,
                 RMax(<<dao_data.total_proposals, 1>>, <<1, 1>>))
        voter_participation == dao_data.avg_voter_participation
        activity_level ==
            RMin(Rat(dao_data.recent_activity.proposals_last_30_days, 10), <<1, 1>>)
        governance_score ==
            RAdd(RAdd(RMul(proposal_success_rate, Rat(3, 10)),
                      RMul(voter_participation, Rat(4, 10))),
                 RMul(activity_level, Rat(3, 10)))
    IN  Clamp01(governance_score)

\* variant: the risk score is not inverted
financial_score_uninverted(diversification, risk_score, liquidity) ==
    Clamp01(RAdd(RAdd(RMul(diversification, Rat(4, 10)),
                      RMul(risk_score, Rat(4, 10))),
                 RMul(liquidity, Rat(2, 10))))

\* lines 132-138
financial_score(diversification, risk_score, liquidity) ==
    Clamp01(RAdd(RAdd(RMul(diversification, Rat(4, 10)),
                      RMul(RSub(<<1, 1>>, risk_score), Rat(4, 10))),
                 RMul(liquidity, Rat(2, 10))))

\* lines 115-141, given what analyze_treasury_health returned (line 124)
_analyze_financial_health(treasury_analysis) ==
    financial_score(Get(treasury_analysis, "diversification_score", Rat(1, 2)),
                    Get(treasury_analysis, "risk_score", Rat(1, 2)),
                    Get(treasury_analysis, "liquidity_score", Rat(1, 2)))

\* lines 143-163
_analyze_community_health(dao_data) ==
    LET member_activity_rate ==
            RDiv(<<dao_data.active_members, 1>>,
                 RMax(<<dao_data.total_members, 1>>, <<1, 1>>))
        recent_engagement ==
            RMin(Rat(dao_data.recent_activity.votes_last_30_days, 1000), <<1, 1>>)
        community_sentiment == Rat(7, 10)
        community_score ==
            RAdd(RAdd(RMul(member_activity_rate, Rat(4, 10)),
                      RMul(recent_engagement, Rat(4, 10))),
                 RMul(community_sentiment, Rat(2, 10)))
    IN  Clamp01(community_score)

\* variant: the community score is left out of the mean
overall_score_pair(governance_score, financial, community_score) ==
    RDiv(RAdd(governance_score, financial), <<2, 1>>)

\* variant: the community score counts for the first request served only
overall_score_warm(governance_score, financial, community_score) ==
    IF log = <<>>
    THEN RDiv(RAdd(RAdd(governance_score, financial), community_score), <<3, 1>>)
    ELSE RDiv(RAdd(governance_score, financial), <<2, 1>>)

\* line 34
overall_score(governance_score, financial, community_score) ==
    RDiv(RAdd(RAdd(governance_score, financial), community_score), <<3, 1>>)

\* an exception leaving a function
RaisedError(name) == [kind |-> "raised", error |-> name]

\* lines 165-195: the list of risk factors, or ZeroDivisionError when line 188
\* divides by total_members = 0 (the function has no try block)
_identify_risk_factors(dao_data, governance_score, financial, community_score) ==
    IF dao_data.total_members = 0 THEN RaisedError("ZeroDivisionError")
    ELSE LET risk_factors ==
                 (IF RLt(governance_score, Rat(6, 10))
                  THEN <<"Low voter participation rate">> ELSE <<>>)
                 \o (IF RLt(dao_data.avg_voter_participation, Rat(1, 2))
                     THEN <<"Insufficient quorum participation">> ELSE <<>>)
                 \o (IF dao_data.recent_activity.proposals_last_30_days < 3
                     THEN <<"Low governance activity">> ELSE <<>>)
                 \o (IF RLt(financial, Rat(6, 10))
                     THEN <<"Treasury concentration risk">> ELSE <<>>)
                 \o (IF dao_data.treasury_value < 100000
                     THEN <<"Low treasury value">> ELSE <<>>)
                 \o (IF RLt(community_score, Rat(6, 10))
                     THEN <<"Declining community engagement">> ELSE <<>>)
                 \o (IF RLt(Rat(dao_data.active_members, dao_data.total_members),
                            Rat(1, 2))
                     THEN <<"Low active member ratio">> ELSE <<>>)
         IN  IF risk_factors = <<>>
             THEN StrList(<<"No significant risks identified">>)
             ELSE StrList(risk_factors)

\* ', '.join(strings)
RECURSIVE Join(_)
Join(strings) ==
    IF strings = <<>> THEN ""
    ELSE IF Len(strings) = 1 THEN strings[1]
    ELSE Join(SubSeq(strings, 1, Len(strings) - 1)) \o ", " \o strings[Len(strings)]

\* lines 197-225
_generate_health_recommendations(overall, governance_score, financial, community_score, risk_factors) ==
    LET recommendations ==
            (IF RLt(overall, Rat(7, 10))
             THEN <<"Consider implementing governance incentives to increase participation">>
             ELSE <<>>)
            \o (IF RLt(governance_score, Rat(6, 10))
                THEN <<"Review and potentially lower quorum requirements",
                       "Implement proposal templates to improve quality">>
                ELSE <<>>)
            \o (IF RLt(financial, Rat(6, 10))
                THEN <<"Diversify treasury holdings to reduce concentration risk",
                       "Consider establishing a treasury management policy">>
                ELSE <<>>)
            \o (IF RLt(community_score, Rat(6, 10))
                THEN <<"Launch community engagement initiatives",
                       "Improve communication channels and transparency">>
                ELSE <<>>)
            \o (IF risk_factors # <<>>
                THEN <<"Address identified risks: " \o Join(FirstN(risk_factors, 2))>>
                ELSE <<>>)
    IN  FirstN(IF recommendations = <<>>
               THEN <<"DAO appears healthy - maintain current practices">>
               ELSE recommendations, 5)

\* lines 227-234
_calculate_health_confidence ==
    Clamp01(RDiv(RAdd(Rat(8, 10), Rat(9, 10)), <<2, 1>>))

\* schemas.py, Field(..., ge=0, le=1)
InUnitInterval(x) == ~RLt(x, <<0, 1>>) /\ ~RLt(<<1, 1>>, x)

\* lines 20-60: the response, or the exception the except branch re-raises
analyze_dao_health(dao_data) ==
    LET governance_score == _analyze_governance_health(dao_data)
        financial == _analyze_financial_health(
                         analyze_treasury_health(dao_data.treasury_assets))
        community_score == _analyze_community_health(dao_data)
        overall == overall_score(governance_score, financial, community_score)
        risk_factors == _identify_risk_factors(dao_data, governance_score,
                                               financial, community_score)
        confidence == _calculate_health_confidence
    IN  IF risk_factors.kind = "raised" THEN risk_factors
        ELSE IF \A x \in {overall, governance_score, financial, community_score,
                          confidence} : InUnitInterval(x)
        THEN [kind |-> "DAOHealthResponse",
              overall_health_score |-> overall,
              governance_score |-> governance_score,
              financial_score |-> financial,
              community_score |-> community_score,
              risk_factors |-> risk_factors.v,
              recommendations |->
                  _generate_health_recommendations(overall, governance_score,
                      financial, community_score, risk_factors.v),
              analysis_confidence |-> confidence]
        ELSE RaisedError("ValidationError")

\* variant: the mean is returned as computed
_calculate_confidence_unclamped(results) ==
    IF Len(results) < 4 \/ results[4].kind # "dict" THEN Rat(1, 2)
    ELSE RDiv(RAdd(RAdd(Rat(8, 10), Rat(7, 10)),
                   Rat(Get(results[4], "confidence", 50), 100)),
              <<3, 1>>)

\* lines 433-446; results[3] is the fourth entry; a list too short or an
\* entry without .get() lands in the except branch (confidences are
\* hundredths, as in the prediction records above)
_calculate_confidence(results) ==
    IF Len(results) < 4 \/ results[4].kind # "dict" THEN Rat(1, 2)
    ELSE Clamp01(RDiv(RAdd(RAdd(Rat(8, 10), Rat(7, 10)),
                           Rat(Get(results[4], "confidence", 50), 100)),
                      <<3, 1>>))

\* dao_service.py lines 77-82
mock_treasury_assets ==
    << [symbol |-> "USDC", value_usd |-> 1000000],
       [symbol |-> "ETH",  value_usd |-> 800000],
       [symbol |-> "UNI",  value_usd |-> 400000],
       [symbol |-> "AAVE", value_usd |-> 300000] >>

\* dao_service.py lines 62-93: the record the mock data source answers with
_get_dao_data ==
    [total_members |-> 1250, active_members |-> 850,
     total_proposals |-> 45, passed_proposals |-> 32,
     avg_voter_participation |-> Rat(68, 100),
     treasury_value |-> 2500000,
     treasury_assets |-> mock_treasury_assets,
     recent_activity |-> [proposals_last_30_days |-> 8,
                          votes_last_30_days |-> 1250]]

\* ---- the data drawn as input of the scoring operations

\* <<passed_proposals, total_proposals>>
ProposalCounts == {<<0, 0>>, <<1, 2>>, <<2, 2>>, <<2, 1>>, <<32, 45>>}

\* <<active_members, total_members>>
MemberCounts == {<<0, 0>>, <<0, 2>>, <<1, 2>>, <<2, 2>>, <<3, 2>>, <<850, 1250>>}

ParticipationRates == {Rat(0, 1), Rat(68, 100), Rat(1, 1)}

RecentProposals == {0, 8, 12}

RecentVotes == {0, 500, 1250}

TreasuryValues == {50000, 2500000}

DaoTreasuries == {p \in Portfolios : Len(p) <= 1} \cup {mock_treasury_assets}

\* what _get_dao_data may answer with once it reads real data
DaoData ==
    {[total_members |-> m[2], active_members |-> m[1],
      total_proposals |-> pr[2], passed_proposals |-> pr[1],
      avg_voter_participation |-> a,
      treasury_value |-> tv,
      treasury_assets |-> t,
      recent_activity |-> [proposals_last_30_days |-> r,
                           votes_last_30_days |-> v]] :
        m \in MemberCounts, pr \in ProposalCounts, a \in ParticipationRates,
        tv \in TreasuryValues, t \in DaoTreasuries,
        r \in RecentProposals, v \in RecentVotes}

\* the fourth entry of a results list: what _predict_outcome returned, the
\* same without a confidence, a confidence outside [0, 1], or no dict at all
PredictionEntries ==
    {[kind |-> "dict", prediction |-> p, confidence |-> c] :
        p \in Probabilities, c \in {-50, 0, 50, 65, 100, 200}}
    \cup {[kind |-> "dict", prediction |-> 50], Str("unavailable")}

\* the results lists handed to _calculate_confidence
ResultLists ==
    {<<s, Str("Fallback"), r, p>> \o rest :
        s \in {Float(-100), Float(75)},
        r \in {RiskRecord("low", <<>>), RiskRecord("high", <<"Financial risk">>)},
        p \in PredictionEntries,
        rest \in {<<>>, <<ImpactRecord("low", "low", "low")>>}}
    \cup {<<>>, <<Float(75), Str("Fallback"), RiskRecord("low", <<>>)>>}

\* ---- the scoring operations as steps

\* AIService.analyze_treasury_health({'assets': assets})
AnalyzeTreasuryHealth ==
    /\ request = NoValue
    /\ \E assets \in Portfolios :
         /\ request' = [kind |-> "analyze_treasury_health", assets |-> assets]
         /\ analysis' = analyze_treasury_health(assets)
         /\ reply' = analyze_treasury_health(assets)
    /\ UNCHANGED <<openai_available, trained, text, analysis_results, entry, pc,
                   error, status, ready, calls, response, result, path>>
    /\ UNCHANGED storeVars

\* DAOService.analyze_dao_health(dao_address), _get_dao_data answering dao_data
AnalyzeDaoHealth ==
    /\ request = NoValue
    /\ \E dao_data \in DaoData :
         /\ request' = [kind |-> "analyze_dao_health", dao_data |-> dao_data]
         /\ analysis' = analyze_treasury_health(dao_data.treasury_assets)
         /\ reply' = analyze_dao_health(dao_data)
    /\ UNCHANGED <<openai_available, trained, text, analysis_results, entry, pc,
                   error, status, ready, calls, response, result, path>>
    /\ UNCHANGED storeVars

\* AIService._calculate_confidence(results)
CalculateConfidence ==
    /\ request = NoValue
    /\ \E results \in ResultLists :
         /\ request' = [kind |-> "_calculate_confidence", results |-> results]
         /\ reply' = Float(_calculate_confidence(results))
    /\ UNCHANGED <<openai_available, trained, text, analysis_results, entry, pc,
                   error, status, ready, calls, response, result, path, analysis>>
    /\ UNCHANGED storeVars

\* ------------------------------------------------------------ TreasuryService

\* treasury_service.py lines 118-150: the list of risks, or KeyError when the
\* analysis carries no 'diversification_score' (line 124, no try block)
_identify_treasury_risks(treasury_data, ai_analysis) ==
    IF "diversification_score" \notin DOMAIN ai_analysis THEN RaisedError("KeyError")
    ELSE LET risk_factors ==
                 (IF RLt(ai_analysis.diversification_score, Rat(3, 10))
                  THEN <<"High asset concentration - consider diversifying holdings">>
                  ELSE <<>>)
                 \o (IF RLt(Rat(2, 10), treasury_data.performance_metrics.volatility_30d)
                     THEN <<"High volatility detected - consider stablecoin allocation">>
                     ELSE <<>>)
                 \o (IF RLt(ai_analysis.liquidity_score, Rat(6, 10))
                     THEN <<"Low liquidity - ensure sufficient liquid assets">>
                     ELSE <<>>)
                 \o (IF RLt(treasury_data.historical_data.daily_change, Rat(-5, 100))
                     THEN <<"Recent significant decline - monitor market conditions">>
                     ELSE <<>>)
                 \o (IF treasury_data.total_value < 100000
                     THEN <<"Small treasury size - consider growth strategies">>
                     ELSE <<>>)
                 \o Get(ai_analysis, "risk_factors", <<>>)
         IN  StrList(FirstN(IF risk_factors = <<>>
                            THEN <<"No significant risks identified">>
                            ELSE risk_factors, 5))

\* treasury_service.py lines 152-197 (type, action and priority of each entry)
_generate_rebalancing_suggestions(treasury_data, ai_analysis) ==
    (IF RLt(ai_analysis.diversification_score, Rat(4, 10))
     THEN <<[type |-> "diversification", action |-> "Increase asset diversity",
             priority |-> "high"]>>
     ELSE <<>>)
    \o (IF RLt(Rat(7, 10), ai_analysis.risk_score)
        THEN <<[type |-> "risk_management", action |-> "Increase stablecoin allocation",
                priority |-> "high"]>>
        ELSE <<>>)
    \o (IF RLt(ai_analysis.liquidity_score, Rat(6, 10))
        THEN <<[type |-> "liquidity", action |-> "Maintain liquid reserves",
                priority |-> "medium"]>>
        ELSE <<>>)
    \o (IF RLt(treasury_data.performance_metrics.sharpe_ratio, Rat(1, 1))
        THEN <<[type |-> "performance", action |-> "Optimize risk-adjusted returns",
                priority |-> "medium"]>>
        ELSE <<>>)

\* treasury_service.py lines 17-53: the response, or the exception the
\* except branch re-raises
analyze_treasury(treasury_data) ==
    LET ai_analysis == analyze_treasury_health(treasury_data.assets)
        top_holdings == Get(ai_analysis, "top_holdings", <<>>)
        risk_factors == _identify_treasury_risks(treasury_data, ai_analysis)
    IN  IF risk_factors.kind = "raised" THEN risk_factors
        ELSE IF \A x \in {ai_analysis.diversification_score, ai_analysis.risk_score,
                          ai_analysis.liquidity_score} : InUnitInterval(x)
        THEN [kind |-> "TreasuryAnalysisResponse",
              total_value_usd |-> treasury_data.total_value,
              asset_diversification_score |-> ai_analysis.diversification_score,
              risk_score |-> ai_analysis.risk_score,
              liquidity_score |-> ai_analysis.liquidity_score,
              top_holdings |-> top_holdings,
              risk_factors |-> risk_factors.v,
              recommendations |-> ai_analysis.recommendations,
              rebalancing_suggestions |->
                  _generate_rebalancing_suggestions(treasury_data, ai_analysis)]
        ELSE RaisedError("ValidationError")

\* treasury_service.py lines 55-116: the record the mock data source answers with
_get_treasury_data ==
    [total_value |-> 2500000,
     assets |-> mock_treasury_assets,
     historical_data |-> [daily_change |-> Rat(8, 1000)],
     performance_metrics |-> [volatility_30d |-> Rat(15, 100),
                              sharpe_ratio |-> Rat(12, 10)]]

TreasuryPortfolios == {p \in Portfolios : Len(p) <= 2} \cup {mock_treasury_assets}

\* what _get_treasury_data may answer with once it reads real data
TreasuryData ==
    {[total_value |-> tv, assets |-> a,
      historical_data |-> [daily_change |-> dc],
      performance_metrics |-> [volatility_30d |-> vol, sharpe_ratio |-> sr]] :
        tv \in TreasuryValues, a \in TreasuryPortfolios,
        dc \in {Rat(8, 1000), Rat(-6, 100)},
        vol \in {Rat(15, 100), Rat(25, 100)},
        sr \in {Rat(12, 10), Rat(8, 10)}}

\* TreasuryService.analyze_treasury(dao_address), _get_treasury_data answering
\* treasury_data
AnalyzeTreasury ==
    /\ request = NoValue
    /\ \E treasury_data \in TreasuryData :
         /\ request' = [kind |-> "analyze_treasury", treasury_data |-> treasury_data]
         /\ analysis' = analyze_treasury_health(treasury_data.assets)
         /\ reply' = analyze_treasury(treasury_data)
    /\ UNCHANGED <<openai_available, trained, text, analysis_results, entry, pc,
                   error, status, ready, calls, response, result, path>>
    /\ UNCHANGED storeVars

\* the services are constructed, no proposal analysis is under way
ScoreInit ==
    /\ openai_available = FALSE
    /\ trained = FALSE
    /\ text = <<>>
    /\ analysis_results = <<>>
    /\ entry = "none"
    /\ pc = "idle"
    /\ error = "none"
    /\ status = [op \in SubOperations |-> "none"]
    /\ ready = <<>>
    /\ calls = [op \in SubOperations |-> 0]
    /\ response = [op \in SubOperations |-> NoResponse]
    /\ result = [op \in SubOperations |-> NoValue]
    /\ path = [op \in SubOperations |-> "none"]
    /\ request = NoValue
    /\ analysis = NoValue
    /\ reply = NoValue
    /\ log = <<>>
    /\ analyses = EmptyDict
    /\ proposals = EmptyDict

ScoreNext ==
    \/ AnalyzeTreasuryHealth
    \/ AnalyzeDaoHealth
    \/ AnalyzeTreasury
    \/ CalculateConfidence

ScoreSpec == ScoreInit /\ [][ScoreNext]_vars

\* ======================================================================
\* HathorService.execute_action
\* ======================================================================

\* Python's None, and the values "not x" holds for
None == "<None>"

Falsy(x) == x \in {None, ""}

\* schemas.py lines 17-21
ActionType ==
    {"proposal_execution", "treasury_rebalance", "token_transfer",
     "contract_interaction"}

\* hathor_service.py lines 28-32
mock_tx_hashes ==
    << "0xabcdef1234567890abcdef1234567890abcdef1234567890abcdef1234567890",
       "0xbcdef1234567890abcdef1234567890abcdef1234567890abcdef1234567890ab",
       "0xcdef1234567890abcdef1234567890abcdef1234567890abcdef1234567890abc" >>

\* lines 384-387: random.choice(self.mock_tx_hashes)
_generate_mock_tx_hash == {mock_tx_hashes[i] : i \in 1..Len(mock_tx_hashes)}

\* a handler's result dict
Executed(tx_hash, gas_used) ==
    [status |-> "executed", transaction_hash |-> tx_hash, gas_used |-> gas_used]

Failed(message) == [status |-> "failed", error_message |-> message]

\* variant: no parameter is checked
_validate_action_parameters_off(req) == "ok"

\* lines 84-95: "ok", or the message of the ValueError raised
_validate_action_parameters(req) ==
    IF Falsy(req.dao_address) THEN "DAO address is required"
    ELSE IF req.action_type = "proposal_execution" /\ Falsy(req.proposal_id)
    THEN "Proposal ID is required for proposal execution"
    ELSE IF /\ req.action_type = "treasury_rebalance"
            /\ "target_allocation" \notin DOMAIN req.parameters
    THEN "Target allocation is required for treasury rebalancing"
    ELSE "ok"

\* lines 97-130
_execute_proposal(req, tx_hash) == Executed(tx_hash, 150000)

\* percentages are thousandths; sum(target_allocation.values())
RECURSIVE SumOver(_, _)
SumOver(dict, keys) ==
    IF keys = {} THEN 0
    ELSE LET k == CHOOSE k \in keys : TRUE
         IN  dict[k] + SumOver(dict, keys \ {k})

\* the double sum lies below, on or above the decimal sum; 0.99 and 1.01 are
\* no doubles, so a sum is never on them (the double 0.99 is below 0.99, the
\* double 0.055 + 0.935 is above it)
Roundings(decimal_sum) ==
    IF decimal_sum = 0 THEN {0}
    ELSE IF decimal_sum \in {990, 1010} THEN {-1, 1}
    ELSE {-1, 0, 1}

\* line 139, sum(target_allocation.values()) in ten-thousandths: the decimal
\* sum and the side of it the double sum is on
total_percentage_of(target_allocation, rounding) ==
    10 * SumOver(target_allocation, DOMAIN target_allocation) + rounding

\* variant: the tolerance is a tenth
ToleranceExceeded_wide(total_percentage) == Abs(total_percentage - 10000) > 1000

\* line 140, abs(total_percentage - 1.0) > 0.01
ToleranceExceeded(total_percentage) == Abs(total_percentage - 10000) > 100

\* the target_allocation argument is a dict (otherwise .values() raises)
IsDict(target_allocation) == DOMAIN target_allocation \subseteq Symbols

\* lines 132-169
_execute_treasury_rebalance(req, tx_hash, rounding) ==
    LET target_allocation == Get(req.parameters, "target_allocation", EmptyDict)
    IN  IF ~IsDict(target_allocation)
        THEN Failed("'str' object has no attribute 'values'")
        ELSE IF ToleranceExceeded(total_percentage_of(target_allocation, rounding))
        THEN Failed("Target allocation percentages must sum to 100%")
        ELSE Executed(tx_hash, 200000)

\* lines 171-206
_execute_token_transfer(req, tx_hash) ==
    LET required_params == <<"recipient", "amount", "token_address">>
        missing == {i \in 1..Len(required_params) :
                        required_params[i] \notin DOMAIN req.parameters}
    IN  IF missing # {}
        THEN Failed("Parameter '" \o required_params[CHOOSE i \in missing :
                        \A j \in missing : i <= j] \o "' is required for token transfer")
        ELSE Executed(tx_hash, 65000)

\* lines 208-240
_execute_contract_interaction(req, tx_hash) ==
    LET contract_address == Get(req.parameters, "contract_address", None)
        method == Get(req.parameters, "method", None)
    IN  IF Falsy(contract_address) \/ Falsy(method)
        THEN Failed("Contract address and method are required")
        ELSE Executed(tx_hash, Get(req.parameters, "estimated_gas", 100000))

\* lines 34-82; the outer except turns every exception into a failed response
execute_action(req, tx_hash, rounding) ==
    LET validation == _validate_action_parameters(req)
        handled ==
            CASE req.action_type = "proposal_execution" ->
                    _execute_proposal(req, tx_hash)
              [] req.action_type = "treasury_rebalance" ->
                    _execute_treasury_rebalance(req, tx_hash, rounding)
              [] req.action_type = "token_transfer" ->
                    _execute_token_transfer(req, tx_hash)
              [] req.action_type = "contract_interaction" ->
                    _execute_contract_interaction(req, tx_hash)
        outcome == IF validation # "ok" THEN Failed(validation) ELSE handled
    IN  [f \in {"kind", "action_type", "dao_address"} \cup DOMAIN outcome |->
            CASE f = "kind" -> "ActionExecutionResponse"
              [] f = "action_type" -> req.action_type
              [] f = "dao_address" -> req.dao_address
              [] OTHER -> outcome[f]]

\* thousandths a target allocation gives a symbol
Percentages == {0, 5, 490, 495, 500, 505, 510, 950}

Allocations ==
    UNION {[held -> Percentages] : held \in SUBSET {"USDC", "UNI"}}
    \cup {Str("everything")}

\* dicts with some of the given keys, each with its one value
DictsOver(values) == UNION {{[k \in keys |-> values[k]]} : keys \in SUBSET DOMAIN values}

\* request.parameters, by action type
ParametersOf(action_type) ==
    CASE action_type = "proposal_execution" -> {EmptyDict}
      [] action_type = "treasury_rebalance" ->
            {EmptyDict} \cup {[target_allocation |-> a] : a \in Allocations}
      [] action_type = "token_transfer" ->
            DictsOver([recipient |-> "0xB0B", amount |-> "100", token_address |-> "0x70C"])
      [] action_type = "contract_interaction" ->
            UNION {DictsOver([contract_address |-> c, method |-> m,
                              estimated_gas |-> 50000]) :
                      c \in {"", "0xC0DE"}, m \in {"", "vote"}}

\* the requests ActionExecutionRequest admits
ActionRequests ==
    UNION {{[kind |-> "execute_action", action_type |-> t, dao_address |-> d,
             proposal_id |-> pid, parameters |-> ps] :
                d \in {"", "0xDA0"}, pid \in {None, "", "prop_1"},
                ps \in ParametersOf(t)} : t \in ActionType}

\* the roundings the sum of a request's target allocation can have
RoundingsOf(req) ==
    IF /\ "target_allocation" \in DOMAIN req.parameters
       /\ IsDict(req.parameters.target_allocation)
    THEN LET target_allocation == req.parameters.target_allocation
         IN  Roundings(SumOver(target_allocation, DOMAIN target_allocation))
    ELSE {0}

\* HathorService.execute_action(request)
ExecuteAction ==
    /\ request = NoValue
    /\ \E req \in ActionRequests, tx_hash \in _generate_mock_tx_hash, rounding \in -1..1 :
         /\ rounding \in RoundingsOf(req)
         /\ request' = req
         /\ analysis' = [rounding |-> rounding]
         /\ reply' = execute_action(req, tx_hash, rounding)
    /\ UNCHANGED <<openai_available, trained, text, analysis_results, entry, pc,
                   error, status, ready, calls, response, result, path>>
    /\ UNCHANGED storeVars

HathorNext == ExecuteAction

HathorSpec == ScoreInit /\ [][HathorNext]_vars

\* ======================================================================
\* The scoring operations, one request after another
\* ======================================================================

\* requests served in one run
MaxCalls == 3

RepeatPortfolios ==
    {p \in Portfolios : Len(p) = 0 \/ (Len(p) = 1 /\ p[1].symbol # "UNI")}
    \cup {mock_treasury_assets}

RepeatDaoData ==
    {d \in DaoData :
        /\ <<d.active_members, d.total_members>> \in {<<850, 1250>>, <<0, 0>>}
        /\ <<d.passed_proposals, d.total_proposals>> = <<32, 45>>
        /\ d.avg_voter_participation = Rat(68, 100)
        /\ d.treasury_value = 2500000
        /\ Len(d.treasury_assets) \in {0, 4}
        /\ d.recent_activity.proposals_last_30_days = 8
        /\ d.recent_activity.votes_last_30_days = 1250}

RepeatResultLists ==
    {r \in ResultLists :
        \/ Len(r) < 4
        \/ /\ Len(r) = 4
           /\ r[1] = Float(75)
           /\ "risk_factors" \in DOMAIN r[3] /\ r[3].risk_factors = <<>>
           /\ \/ r[4].kind = "str"
              \/ "confidence" \in DOMAIN r[4] /\ r[4].confidence \in {65, 200}}

\* the request is answered and entered in the history
Serve(req, rep) ==
    /\ request' = req
    /\ reply' = rep
    /\ log' = Append(log, [request |-> req, reply |-> rep])

\* AIService.analyze_treasury_health({'assets': assets}), again and again
RepeatTreasuryHealth ==
    /\ Len(log) < MaxCalls
    /\ \E assets \in RepeatPortfolios :
         /\ Serve([kind |-> "analyze_treasury_health", assets |-> assets],
                  analyze_treasury_health(assets))
         /\ analysis' = analyze_treasury_health(assets)
    /\ UNCHANGED <<openai_available, trained, text, analysis_results, entry, pc,
                   error, status, ready, calls, response, result, path>>
    /\ UNCHANGED <<analyses, proposals>>

\* DAOService.analyze_dao_health(dao_address), again and again
RepeatDaoHealth ==
    /\ Len(log) < MaxCalls
    /\ \E dao_data \in RepeatDaoData :
         /\ Serve([kind |-> "analyze_dao_health", dao_data |-> dao_data],
                  analyze_dao_health(dao_data))
         /\ analysis' = analyze_treasury_health(dao_data.treasury_assets)
    /\ UNCHANGED <<openai_available, trained, text, analysis_results, entry, pc,
                   error, status, ready, calls, response, result, path>>
    /\ UNCHANGED <<analyses, proposals>>

\* AIService._calculate_confidence(results), again and again
RepeatConfidence ==
    /\ Len(log) < MaxCalls
    /\ \E results \in RepeatResultLists :
         Serve([kind |-> "_calculate_confidence", results |-> results],
               Float(_calculate_confidence(results)))
    /\ UNCHANGED <<openai_available, trained, text, analysis_results, entry, pc,
                   error, status, ready, calls, response, result, path, analysis>>
    /\ UNCHANGED <<analyses, proposals>>

RepeatNext ==
    \/ RepeatTreasuryHealth
    \/ RepeatDaoHealth
    \/ RepeatConfidence

RepeatSpec == ScoreInit /\ [][RepeatNext]_vars

\* ======================================================================
\* ProposalService
\* ======================================================================

\* the largest limit asked of get_proposal_predictions (main.py: default 10)
MaxLimit == 10

\* schemas.py lines 6-9
RiskLevel == {"low", "medium", "high"}

\* dict[key] = value
Put(dict, key, value) ==
    [k \in DOMAIN dict \cup {key} |-> IF k = key THEN value ELSE dict[k]]

\* ai_service.py lines 113-142 with the text generator unavailable: what
\* AIService.analyze_proposal returns or raises (gather raises TypeError on
\* the first entry of the task list that is no awaitable)
ai_analyze_proposal(description) ==
    IF FirstNonAwaitable # 0 THEN {RaisedError("TypeError")}
    ELSE {[kind |-> "dict", summary |-> s.v, risk_assessment |-> r,
           key_points |-> k.v] :
             s \in _get_fallback_summary(description),
             r \in _get_fallback_risk_assessment(description),
             k \in _get_fallback_key_points(description)}

\* proposal_service.py lines 43-55: the response built from the AI analysis,
\* or the ValueError of RiskLevel(...)
ProposalAnalysisResponse(req, ai_analysis) ==
    IF ai_analysis.risk_assessment.risk_level \notin RiskLevel
    THEN RaisedError("ValueError")
    ELSE [kind |-> "ProposalAnalysisResponse",
          proposal_id |-> req.proposal_id,
          dao_address |-> req.dao_address,
          summary |-> ai_analysis.summary,
          risk_assessment |-> ai_analysis.risk_assessment.risk_level,
          key_points |-> ai_analysis.key_points]

\* lines 29-65: what analyze_proposal returns or re-raises
analyze_proposal(req, ai_analysis) ==
    IF ai_analysis.kind = "raised" THEN ai_analysis
    ELSE ProposalAnalysisResponse(req, ai_analysis)

\* lines 193-208
_generate_mock_summary(proposal_id) ==
    [kind |-> "ProposalSummaryResponse",
     proposal_id |-> proposal_id,
     title |-> "Sample Governance Proposal",
     summary |-> "This proposal aims to improve the DAO's governance structure by implementing new voting mechanisms and treasury management strategies.",
     key_points |-> <<"Introduces new voting mechanism",
                      "Updates treasury allocation strategy",
                      "Improves governance transparency">>,
     risk_level |-> "medium"]

\* lines 67-91
get_proposal_summary(proposal_id) ==
    IF proposal_id \in DOMAIN analyses
    THEN LET stored == analyses[proposal_id]
         IN  [kind |-> "ProposalSummaryResponse",
              proposal_id |-> proposal_id,
              title |-> "Proposal Analysis",
              summary |-> stored.summary,
              key_points |-> stored.key_points,
              risk_level |-> stored.risk_assessment]
    ELSE _generate_mock_summary(proposal_id)

\* the test success_rate > 0.7 on a rate in hundredths: the one rate that
\* comes to 0.7 is the double 0.65 + 0.05 = 0.7000000000000001, above 0.7
AboveSeventy(success_rate) == success_rate >= 70

\* lines 242-253
_get_prediction_factors(success_rate) ==
    IF AboveSeventy(success_rate)
    THEN <<"High community support", "Clear proposal objectives", "Low risk assessment">>
    ELSE IF success_rate > 50
    THEN <<"Moderate community interest", "Standard proposal type", "Medium risk">>
    ELSE <<"Limited community engagement", "Complex proposal", "High risk factors">>

\* lines 255-262
_get_prediction_recommendation(success_rate) ==
    IF AboveSeventy(success_rate) THEN "High likelihood of success - consider supporting"
    ELSE IF success_rate > 50 THEN "Moderate success probability - review carefully"
    ELSE "Low success probability - may need revision"

\* lines 93-129, rates in hundredths: 0.65 + i * 0.05 and 0.7 + i * 0.02
get_proposal_predictions(limit) ==
    [i \in 1..limit |->
        [proposal_id |-> "prop_" \o ToString(i),
         predicted_success_rate |-> 65 + i * 5,
         confidence |-> 70 + i * 2,
         estimated_impact |-> "medium",
         key_factors |-> _get_prediction_factors(65 + i * 5),
         recommendation |-> _get_prediction_recommendation(65 + i * 5)]]

ProposalIds == {"prop_1", "prop_2"}

Descriptions == {<<>>, <<"funds">>}

\* the requests ProposalAnalysisRequest admits
ProposalRequests ==
    [proposal_id : ProposalIds, dao_address : {"0xDA0"}, description : Descriptions]

\* ProposalService.analyze_proposal(request)
AnalyzeProposalRequest ==
    /\ Len(log) < MaxCalls
    /\ \E req \in ProposalRequests :
         \E ai_analysis \in ai_analyze_proposal(req.description) :
            LET answer == analyze_proposal(req, ai_analysis)
            IN  /\ Serve([kind |-> "analyze_proposal", proposal_id |-> req.proposal_id,
                          description |-> req.description], answer)
                /\ analyses' = IF answer.kind = "raised" THEN analyses
                               ELSE Put(analyses, req.proposal_id, answer)
    /\ UNCHANGED <<openai_available, trained, text, analysis_results, entry, pc,
                   error, status, ready, calls, response, result, path, analysis>>
    /\ UNCHANGED proposals

\* ProposalService.store_analysis(request), lines 131-149
StoreAnalysis ==
    /\ Len(log) < MaxCalls
    /\ \E req \in ProposalRequests :
         /\ Serve([kind |-> "store_analysis", proposal_id |-> req.proposal_id,
                   description |-> req.description], NoValue)
         /\ proposals' = Put(proposals, req.proposal_id,
                             [dao_address |-> req.dao_address,
                              description |-> req.description])
    /\ UNCHANGED <<openai_available, trained, text, analysis_results, entry, pc,
                   error, status, ready, calls, response, result, path, analysis>>
    /\ UNCHANGED analyses

\* ProposalService.get_proposal_summary(proposal_id)
GetProposalSummary ==
    /\ Len(log) < MaxCalls
    /\ \E proposal_id \in ProposalIds :
         Serve([kind |-> "get_proposal_summary", proposal_id |-> proposal_id],
               get_proposal_summary(proposal_id))
    /\ UNCHANGED <<openai_available, trained, text, analysis_results, entry, pc,
                   error, status, ready, calls, response, result, path, analysis>>
    /\ UNCHANGED <<analyses, proposals>>

\* ProposalService.get_proposal_predictions(dao_address, limit)
GetProposalPredictions ==
    /\ Len(log) < MaxCalls
    /\ \E limit \in 0..MaxLimit :
         Serve([kind |-> "get_proposal_predictions", limit |-> limit],
               [kind |-> "list", v |-> get_proposal_predictions(limit)])
    /\ UNCHANGED <<openai_available, trained, text, analysis_results, entry, pc,
                   error, status, ready, calls, response, result, path, analysis>>
    /\ UNCHANGED <<analyses, proposals>>

ProposalNext ==
    \/ AnalyzeProposalRequest
    \/ StoreAnalysis
    \/ GetProposalSummary
    \/ GetProposalPredictions

ProposalSpec == ScoreInit /\ [][ProposalNext]_vars

\* ======================================================================
\* Properties
\* ======================================================================

Five == {tasks[k] : k \in 1..Len(tasks)}

\* the primary call of op has produced r, and r is a failure: the call raised
\* or its content cannot be parsed
IsFailure(op, r) == r = Raised \/ (r # NoResponse /\ r # Raised /\ ~Parses(op, r))

\* analyze_proposal has passed its gather statement
PastGather == entry = "analyze_proposal" /\ pc \notin {"idle", "gather"}

\* C1: the five sub-analyses of analyze_proposal are all launched together,
\* and confidence, key points and recommendations are computed only after all
\* five have completed.
C1_FanOutFanIn ==
    /\ PastGather => \A op \in Five : status[op] \in {"ready", "calling", "done"}
    /\ (entry = "analyze_proposal" /\ \E op \in {"_extract_key_points", "_generate_recommendations"} :
            status[op] # "none")
         => \A op \in Five : status[op] = "done"

\* nothing is left to run: no scheduled task, no outstanding primary call
Quiescent ==
    /\ PastGather
    /\ ready = <<>>
    /\ \A op \in SubOperations : status[op] # "calling"

\* C2: each of the five sub-analyses is attempted and runs to its own
\* completion, whatever happens to its siblings: once nothing is left to run,
\* all five have completed.
C2_AllFiveRunToCompletion ==
    Quiescent => \A op \in Five : status[op] = "done"

\* the type/range contract of a sub-operation's value
Contract(op, v) ==
    CASE op = "_analyze_sentiment" -> v.kind = "float" /\ v.v >= -100 /\ v.v <= 100
      [] op = "_generate_summary" -> v.kind = "str" /\ v.v # ""
      [] op = "_assess_risk" ->
            /\ v.kind = "dict"
            /\ v.risk_level \in {"low", "medium", "high"}
            /\ v.risk_score >= 0 /\ v.risk_score <= 100
      [] op = "_analyze_impact" ->
            /\ v.kind = "dict"
            /\ \A d \in {v.treasury_impact, v.governance_impact, v.community_impact} :
                  d.score >= 0 /\ d.score <= 100
      [] op \in {"_extract_key_points", "_generate_recommendations"} ->
            /\ v.kind = "list"
            /\ Len(v.v) > 0
            /\ \A i \in 1..Len(v.v) : v.v[i] \in STRING

C4_AnalyzeProposalReturnsRecord ==
    (PastGather /\ ~openai_available) =>
        /\ error = "none"
        /\ {"sentiment_score", "summary", "risk_level", "key_points",
            "recommendations", "impact_level", "prediction"} \subseteq analysis_record_keys
        /\ {"confidence", "outcome"} \subseteq DOMAIN result["_predict_outcome"]

C6_AtMostOnePrimaryCall ==
    \A op \in GeneratorBacked :
        /\ calls[op] <= 1
        /\ IsFailure(op, response[op]) =>
              calls[op] = 1 /\ status[op] = "done" /\ path[op] = "fallback"

C6_Witness ==
    /\ response["_analyze_sentiment"] = Raised
    /\ calls["_analyze_sentiment"] = 1
    /\ status["_analyze_sentiment"] = "done"

\* C7: a sub-operation whose primary call never answers still completes
\* (a per-call timeout cuts the call off and the fallback is used).
C7_HungCallStillCompletes ==
    \A op \in GeneratorBacked : (status[op] = "calling") ~> (status[op] = "done")

\* the list words that occur, in any letter case, inside a token of the text
Mentioned(tok) ==
    CASE tok = "Improve"  -> {"improve"}
      [] tok = "risk"     -> {"risk"}
      [] tok = "funds"    -> {"fund"}
      [] tok = "voting"   -> {"voting"}
      [] tok = "security" -> {"security"}

\* how many words of the list occur as substrings of the lower-cased text
Occurrences(words) ==
    Cardinality({k \in 1..Len(words) : \E i \in 1..Len(text) : words[k] \in Mentioned(text[i])})

\* C8: _get_fallback_sentiment returns a value in [0.3, 0.8] when more
\* positive than negative words occur in the lower-cased text, in
\* [-0.8, -0.3] when more negative words occur, and in [-0.2, 0.2] otherwise.
C8_FallbackSentimentBands ==
    (status["_analyze_sentiment"] = "done" /\ path["_analyze_sentiment"] = "fallback") =>
        LET v == result["_analyze_sentiment"].v
            pos == Occurrences(<<"improve", "enhance", "optimize", "increase", "benefit", "positive">>)
            neg == Occurrences(<<"reduce", "decrease", "risk", "danger", "negative", "problem">>)
        IN  /\ pos > neg => (v >= 30 /\ v <= 80)
            /\ neg > pos => (v >= -80 /\ v <= -30)
            /\ pos = neg => (v >= -20 /\ v <= 20)

C8_Witness ==
    /\ text = <<"Improve", "risk", "Improve">>
    /\ status["_analyze_sentiment"] = "done"
    /\ path["_analyze_sentiment"] = "fallback"
    /\ result["_analyze_sentiment"].v = 20

\* C9: _analyze_sentiment returns a number in [-1, 1] on every path: a
\* numeric answer outside the range is clamped to the nearest bound, a
\* non-numeric or failed answer yields the fallback value.
C9_SentimentWithinRange ==
    status["_analyze_sentiment"] = "done" =>
        LET v == result["_analyze_sentiment"].v
            r == response["_analyze_sentiment"]
        IN  /\ v >= -100 /\ v <= 100
            /\ r = "0.75" => v = 75
            /\ r = "-2.5" => v = -100
            /\ r = "3" => v = 100
            /\ r \in {"positive", Raised} =>
                  result["_analyze_sentiment"] \in _get_fallback_sentiment(text)

C9_Witness ==
    /\ response["_analyze_sentiment"] = "-2.5"
    /\ status["_analyze_sentiment"] = "done"
    /\ result["_analyze_sentiment"].v = -100

\* the text mentions fund, money, treasury or allocation
MentionsFunds ==
    \E i \in 1..Len(text) :
        Mentioned(text[i]) \cap {"fund", "money", "treasury", "allocation"} # {}

\* C10: _get_fallback_risk_assessment returns a level among low, medium, high
\* with score 0.2, 0.5, 0.8 respectively; a text mentioning
\* fund/money/treasury/allocation gets medium or high and the financial factor
\* list, any other text gets low or medium.
C10_FallbackRiskBands ==
    (status["_assess_risk"] = "done" /\ path["_assess_risk"] = "fallback") =>
        LET r == result["_assess_risk"]
        IN  /\ r.risk_level \in {"low", "medium", "high"}
            /\ r.risk_level = "low" => r.risk_score = 20
            /\ r.risk_level = "medium" => r.risk_score = 50
            /\ r.risk_level = "high" => r.risk_score = 80
            /\ MentionsFunds =>
                  /\ r.risk_level \in {"medium", "high"}
                  /\ r.risk_factors = <<"Financial impact", "Treasury exposure", "Market volatility">>
            /\ ~MentionsFunds => r.risk_level \in {"low", "medium"}

C10_Witness ==
    /\ MentionsFunds
    /\ status["_assess_risk"] = "done"
    /\ path["_assess_risk"] = "fallback"
    /\ result["_assess_risk"].risk_level = "high"

\* C11: the risk level delivered by _assess_risk is one of low, medium, high
\* for every text, on the fallback path and on the primary path alike.
C11_RiskLevelIsLowMediumHigh ==
    status["_assess_risk"] = "done" =>
        /\ "risk_level" \in DOMAIN result["_assess_risk"]
        /\ result["_assess_risk"].risk_level \in {"low", "medium", "high"}

\* C12: outcome prediction is computed locally without any text-generator
\* call, returns prediction and confidence within [0, 1], and returns exactly
\* (0.5, 0.5) when its computation fails.
C12_PredictionIsLocal ==
    status["_predict_outcome"] = "done" =>
        LET r == result["_predict_outcome"]
        IN  /\ calls["_predict_outcome"] = 0
            /\ response["_predict_outcome"] = NoResponse
            /\ entry = "_predict_outcome" => \A op \in SubOperations : calls[op] = 0
            /\ r.prediction >= 0 /\ r.prediction <= 100
            /\ r.confidence >= 0 /\ r.confidence <= 100
            /\ ~trained => (r.prediction = 50 /\ r.confidence = 50)

C12_Witness ==
    /\ openai_available
    /\ ~trained
    /\ entry = "_predict_outcome"
    /\ status["_predict_outcome"] = "done"
    /\ result["_predict_outcome"].confidence = 50

\* ---------------------------------------------------------------- scoring

\* x, a fraction <<n, d>>, lies in [0, 1]
WithinUnit(x) == x[1] >= 0 /\ x[1] <= x[2]

\* the fraction n/d cut to [0, 1] (d > 0)
CutToUnit(n, d) == IF n < 0 THEN <<0, 1>> ELSE IF n > d THEN <<1, 1>> ELSE Rat(n, d)

IsHealthResponse == reply.kind = "DAOHealthResponse"

\* analyze_treasury_health answered with scores (not the error marker)
HasScores == analysis.kind = "dict" /\ "risk_score" \in DOMAIN analysis

\* C13: the aggregate confidence is (0.8 + 0.7 + c) / 3 cut to [0, 1], c being
\* the prediction's confidence (0.5 when it carries none), whatever the
\* sentiment, summary, risk and impact entries are.
C13_AggregateConfidence ==
    (/\ request.kind = "_calculate_confidence"
     /\ Len(request.results) >= 4
     /\ request.results[4].kind = "dict") =>
        LET p == request.results[4]
            c == IF "confidence" \in DOMAIN p THEN p.confidence ELSE 50
        IN  reply.v = CutToUnit(150 + c, 300)

C13_Witness ==
    /\ request.kind = "_calculate_confidence"
    /\ Len(request.results) >= 4
    /\ request.results[4].kind = "dict"
    /\ "confidence" \notin DOMAIN request.results[4]
    /\ reply.v = <<2, 3>>

\* C14: every score the DAO health analysis and the treasury analysis produce
\* lies in [0, 1], zero totals and empty portfolios included.
C14_ScoresWithinUnitInterval ==
    /\ HasScores =>
          /\ WithinUnit(analysis.diversification_score)
          /\ WithinUnit(analysis.risk_score)
          /\ WithinUnit(analysis.liquidity_score)
    /\ request.kind = "analyze_dao_health" =>
          /\ WithinUnit(_analyze_governance_health(request.dao_data))
          /\ WithinUnit(_analyze_financial_health(analysis))
          /\ WithinUnit(_analyze_community_health(request.dao_data))
    /\ IsHealthResponse =>
          /\ WithinUnit(reply.overall_health_score)
          /\ WithinUnit(reply.governance_score)
          /\ WithinUnit(reply.financial_score)
          /\ WithinUnit(reply.community_score)
          /\ WithinUnit(reply.analysis_confidence)

C14_Witness ==
    /\ IsHealthResponse
    /\ request.dao_data.total_proposals = 0
    /\ request.dao_data.treasury_assets = <<>>
    /\ request.dao_data.active_members > request.dao_data.total_members

\* C15: the governance score is 0.3 * passed / max(total, 1)
\* + 0.4 * participation + 0.3 * min(recent / 10, 1), cut to [0, 1].
C15_GovernanceScore ==
    IsHealthResponse =>
        LET d == request.dao_data
            T == IF d.total_proposals > 1 THEN d.total_proposals ELSE 1
            a == d.avg_voter_participation
            recent == d.recent_activity.proposals_last_30_days
            tenths == IF recent < 10 THEN recent ELSE 10
        IN  reply.governance_score =
                CutToUnit(30 * d.passed_proposals * a[2] + 40 * a[1] * T
                              + 3 * tenths * T * a[2],
                          100 * T * a[2])

C15_Witness ==
    /\ IsHealthResponse
    /\ request.dao_data.total_proposals = 0
    /\ request.dao_data.recent_activity.proposals_last_30_days > 10
    /\ reply.governance_score = <<143, 250>>

\* the risk scores a treasury is compared with
RiskGrid == {Rat(k, 10) : k \in 0..10}

\* C16: the financial score is 0.4 * diversification + 0.4 * (1 - risk)
\* + 0.2 * liquidity, cut to [0, 1]; with diversification and liquidity held
\* fixed, a higher risk never gives a higher financial score.
C16_FinancialScore ==
    IsHealthResponse =>
        LET half == <<1, 2>>
            dv == IF HasScores THEN analysis.diversification_score ELSE half
            rk == IF HasScores THEN analysis.risk_score ELSE half
            lq == IF HasScores THEN analysis.liquidity_score ELSE half
            \* tenths of the three terms: 4 dv + 4 (1 - rk) + 2 lq
            n == 4 * dv[1] * rk[2] * lq[2] + 4 * (rk[2] - rk[1]) * dv[2] * lq[2]
                 + 2 * lq[1] * dv[2] * rk[2]
        IN  /\ reply.financial_score = CutToUnit(n, 10 * dv[2] * rk[2] * lq[2])
            /\ \A other \in RiskGrid :
                 /\ ~RLt(other, rk) =>
                       ~RLt(reply.financial_score, financial_score(dv, other, lq))
                 /\ ~RLt(rk, other) =>
                       ~RLt(financial_score(dv, other, lq), reply.financial_score)

C16_Witness ==
    /\ IsHealthResponse
    /\ HasScores
    /\ analysis.risk_score = <<4, 5>>
    /\ RLt(reply.financial_score, financial_score(analysis.diversification_score,
                                                  <<1, 10>>, analysis.liquidity_score))

\* C17: the overall health score of a response is the unweighted mean of the
\* governance, financial and community scores of the same response.
C17_OverallIsMean ==
    IsHealthResponse =>
        RMul(<<3, 1>>, reply.overall_health_score)
            = RAdd(RAdd(reply.governance_score, reply.financial_score),
                   reply.community_score)

C17_Witness ==
    /\ IsHealthResponse
    /\ request.dao_data = _get_dao_data
    /\ reply.governance_score # reply.financial_score
    /\ reply.financial_score # reply.community_score
    /\ reply.governance_score # reply.community_score
    /\ RLt(<<0, 1>>, reply.overall_health_score)

\* the holdings of the portfolio the treasury analysis was asked about
Assets == request.assets

PositiveHoldings == {i \in 1..Len(Assets) : Assets[i].value_usd > 0}

TreasuryScored == request.kind = "analyze_treasury_health" /\ HasScores

\* C18 as stated: the diversification score is 1 exactly when the portfolio
\* has one asset (with positive value).
C18_OneAssetScoresOne ==
    TreasuryScored =>
        (analysis.diversification_score = <<1, 1>>
            <=> (Len(Assets) = 1 /\ Assets[1].value_usd > 0))

\* C18: the diversification score is 0 exactly when exactly one holding of the
\* portfolio has a positive value, in particular for a portfolio of one asset
\* (with positive value); it is never 1.
C18_OneAssetScoresZero ==
    TreasuryScored =>
        /\ analysis.diversification_score = <<0, 1>>
              <=> Cardinality(PositiveHoldings) = 1
        /\ analysis.diversification_score # <<1, 1>>

C18_Witness ==
    /\ TreasuryScored
    /\ Len(Assets) = 1
    /\ analysis.diversification_score = <<0, 1>>

RECURSIVE SumOfSquares(_)
SumOfSquares(assets) ==
    IF assets = <<>> THEN 0
    ELSE assets[1].value_usd * assets[1].value_usd + SumOfSquares(Tail(assets))

RECURSIVE SumOfValues(_)
SumOfValues(assets) ==
    IF assets = <<>> THEN 0 ELSE assets[1].value_usd + SumOfValues(Tail(assets))

\* C19: the diversification score is 1 minus the sum of (value_i / total)^2;
\* for N holdings of equal positive value it is 1 - 1/N (0.75 for four).
C19_DiversificationIsOneMinusHHI ==
    TreasuryScored =>
        LET total == SumOfValues(Assets)
            N == Len(Assets)
        IN  /\ analysis.diversification_score
                  = Rat(total * total - SumOfSquares(Assets), total * total)
            /\ (\A i \in 1..N : Assets[i].value_usd = Assets[1].value_usd) =>
                  analysis.diversification_score = Rat(N - 1, N)

C19_Witness ==
    /\ TreasuryScored
    /\ Len(Assets) = 4
    /\ \A i \in 1..4 : Assets[i].value_usd = Assets[1].value_usd
    /\ analysis.diversification_score = <<3, 4>>

\* the factors every value_usd is multiplied by
ScaleFactors == {2, 3, 10}

Scaled(assets, k) ==
    [i \in 1..Len(assets) |-> [assets[i] EXCEPT !.value_usd = k * @]]

\* C20: multiplying every holding's value_usd by the same positive factor
\* leaves the treasury risk and the liquidity score of a portfolio with
\* positive total value unchanged.
C20_ScaleInvariance ==
    TreasuryScored =>
        \A k \in ScaleFactors :
            /\ _calculate_treasury_risk(Scaled(Assets, k)) = analysis.risk_score
            /\ _calculate_liquidity_score(Scaled(Assets, k)) = analysis.liquidity_score

C20_Witness ==
    /\ TreasuryScored
    /\ Cardinality({Assets[i].symbol : i \in PositiveHoldings}) >= 2
    /\ _calculate_treasury_risk(Scaled(Assets, 2)) = analysis.risk_score
    /\ RLt(analysis.risk_score, <<1, 1>>)
    /\ RLt(analysis.liquidity_score, <<1, 1>>)

\* ------------------------------------------------------ treasury, end to end

\* the response of TreasuryService.analyze_treasury to the portfolio
\* USDC 1,000,000 / ETH 800,000 / UNI 400,000 / AAVE 300,000
IsMockTreasuryResponse ==
    /\ request.kind = "analyze_treasury"
    /\ request.treasury_data.assets =
           << [symbol |-> "USDC", value_usd |-> 1000000],
              [symbol |-> "ETH",  value_usd |-> 800000],
              [symbol |-> "UNI",  value_usd |-> 400000],
              [symbol |-> "AAVE", value_usd |-> 300000] >>
    /\ reply.kind = "TreasuryAnalysisResponse"

\* tenths of the risk and of the liquidity the claim gives each symbol
RiskTenths(symbol) ==
    CASE symbol = "USDC" -> 1 [] symbol = "ETH" -> 6
      [] symbol \in {"UNI", "AAVE"} -> 8 [] OTHER -> 5

LiquidityTenths(symbol) ==
    CASE symbol = "USDC" -> 10 [] symbol = "ETH" -> 9 [] symbol = "UNI" -> 7
      [] symbol = "AAVE" -> 6 [] OTHER -> 5

RECURSIVE RiskSum(_)
RiskSum(assets) ==
    IF assets = <<>> THEN 0
    ELSE assets[1].value_usd * RiskTenths(assets[1].symbol) + RiskSum(Tail(assets))

RECURSIVE LiquiditySum(_)
LiquiditySum(assets) ==
    IF assets = <<>> THEN 0
    ELSE assets[1].value_usd * LiquidityTenths(assets[1].symbol)
             + LiquiditySum(Tail(assets))

\* risk and liquidity are the value-weighted means of the tables' entries,
\* a symbol in neither table counting 0.5
DefaultIsHalf ==
    TreasuryScored =>
        /\ analysis.risk_score = Rat(RiskSum(Assets), 10 * SumOfValues(Assets))
        /\ analysis.liquidity_score = Rat(LiquiditySum(Assets), 10 * SumOfValues(Assets))

\* C21 as stated: the portfolio scores diversification 0.7056, risk 0.456 and
\* liquidity 0.872; an unknown symbol contributes 0.5.
C21_PortfolioScoresAsStated ==
    /\ IsMockTreasuryResponse =>
          /\ reply.asset_diversification_score = Rat(7056, 10000)
          /\ reply.risk_score = Rat(456, 1000)
          /\ reply.liquidity_score = Rat(872, 1000)
    /\ DefaultIsHalf

\* C21: the portfolio scores diversification 0.6976, risk 0.456 and liquidity
\* 0.872; a symbol absent from a table contributes with the default 0.5.
C21_PortfolioScores ==
    /\ IsMockTreasuryResponse =>
          /\ reply.asset_diversification_score = Rat(6976, 10000)
          /\ reply.risk_score = Rat(456, 1000)
          /\ reply.liquidity_score = Rat(872, 1000)
    /\ DefaultIsHalf

C21_Witness ==
    /\ IsMockTreasuryResponse
    /\ request.treasury_data = _get_treasury_data
    /\ reply.liquidity_score = <<109, 125>>

\* C22: DAO health analysis returns a response whatever denominators are
\* zero (empty or zero-valued portfolio, no members, no proposals).
C22_ZeroDenominatorsStillRespond ==
    request.kind = "analyze_dao_health" => IsHealthResponse

\* C23: for a portfolio of total value 0 the treasury analysis surfaces the
\* no-data marker of analyze_treasury_health (an 'error' entry, no scores).
C23_ZeroTotalSurfacesMarker ==
    (/\ request.kind = "analyze_treasury"
     /\ SumOfValues(request.treasury_data.assets) = 0) =>
        /\ analysis.kind = "dict"
        /\ DOMAIN analysis = {"kind", "error"}
        /\ reply = analysis

\* ----------------------------------------------------------------------
\* HathorService
\* ----------------------------------------------------------------------

ActionAnswered == request # NoValue /\ request.kind = "execute_action"

\* a rebalance whose allocation reached the comparison of the percentages
RebalanceSummed ==
    /\ ActionAnswered
    /\ request.action_type = "treasury_rebalance"
    /\ ~Falsy(request.dao_address)
    /\ "target_allocation" \in DOMAIN request.parameters
    /\ IsDict(request.parameters.target_allocation)

SummedPercentage ==
    total_percentage_of(request.parameters.target_allocation, analysis.rounding)

\* C24: a rebalance whose target percentages sum further than 0.01 from 1.0
\* is reported failed with the validation error, without transaction hash and
\* without gas figure; one whose sum is within 0.01 of 1.0 is executed
C24_RebalanceSumTolerance ==
    RebalanceSummed =>
        IF Abs(SummedPercentage - 10000) > 100
        THEN /\ reply.status = "failed"
             /\ reply.error_message = "Target allocation percentages must sum to 100%"
             /\ "transaction_hash" \notin DOMAIN reply
             /\ "gas_used" \notin DOMAIN reply
        ELSE /\ reply.status = "executed"
             /\ reply.transaction_hash \in _generate_mock_tx_hash
             /\ reply.gas_used = 200000

C24_Witness ==
    /\ RebalanceSummed
    /\ DOMAIN request.parameters.target_allocation = {"USDC", "UNI"}
    /\ SummedPercentage = 9500
    /\ reply.status = "failed"

\* C28: execute_action answers every request with a result record; a request
\* with an empty DAO address, a proposal execution without proposal id and a
\* rebalance without target_allocation fail in validation, before any
\* handler; a failed result has status 'failed', an error message and no
\* transaction hash, an executed one a transaction hash and no error message
C28_ActionAlwaysAnswered ==
    ActionAnswered =>
        /\ reply.kind = "ActionExecutionResponse"
        /\ reply.status \in {"executed", "failed"}
        /\ Falsy(request.dao_address) =>
              /\ reply.status = "failed"
              /\ reply.error_message = "DAO address is required"
        /\ (/\ ~Falsy(request.dao_address)
            /\ request.action_type = "proposal_execution"
            /\ Falsy(request.proposal_id)) =>
              /\ reply.status = "failed"
              /\ reply.error_message = "Proposal ID is required for proposal execution"
        /\ (/\ ~Falsy(request.dao_address)
            /\ request.action_type = "treasury_rebalance"
            /\ "target_allocation" \notin DOMAIN request.parameters) =>
              /\ reply.status = "failed"
              /\ reply.error_message
                    = "Target allocation is required for treasury rebalancing"
        /\ reply.status = "failed" =>
              /\ "error_message" \in DOMAIN reply
              /\ "transaction_hash" \notin DOMAIN reply
        /\ reply.status = "executed" =>
              /\ "transaction_hash" \in DOMAIN reply
              /\ "error_message" \notin DOMAIN reply

C28_Witness ==
    /\ ActionAnswered
    /\ request.action_type = "treasury_rebalance"
    /\ request.dao_address = "0xDA0"
    /\ request.parameters = EmptyDict
    /\ reply.status = "failed"
    /\ "transaction_hash" \notin DOMAIN reply

\* ----------------------------------------------------------------------
\* AIService: key points and recommendations
\* ----------------------------------------------------------------------

\* C25: the key points list and the recommendations list each hold between
\* one and five entries, on the fallback path and on the primary path
C25_ListsHoldOneToFive ==
    \A op \in {"_extract_key_points", "_generate_recommendations"} :
        status[op] = "done" =>
            /\ result[op].kind = "list"
            /\ Len(result[op].v) \in 1..5

\* ----------------------------------------------------------------------
\* AIService: what the operations write
\* ----------------------------------------------------------------------

\* the slots of one sub-analysis
Slots(op) == <<status[op], calls[op], response[op], result[op], path[op]>>

\* a step of the event loop inside one sub-analysis: a task runs up to its
\* await, or its primary call comes back
SubAnalysisStep ==
    /\ entry' = entry
    /\ pc' = pc
    /\ \E op \in SubOperations : Slots(op)' # Slots(op)

SameRequest(i, j) ==
    /\ log[i].request.kind = log[j].request.kind
    /\ log[i].request = log[j].request

SummaryAnswered == request # NoValue /\ request.kind = "get_proposal_summary"

\* the requests served before the last one that analysed the proposal
AnalysesOf(proposal_id) ==
    {i \in 1..(Len(log) - 1) :
        /\ log[i].request.kind = "analyze_proposal"
        /\ log[i].request.proposal_id = proposal_id}

Latest(indices) == CHOOSE i \in indices : \A j \in indices : j <= i

PredictionsAnswered == request # NoValue /\ request.kind = "get_proposal_predictions"

\* C30: for every limit >= 0 get_proposal_predictions returns exactly limit
\* entries with the ids prop_1 .. prop_limit in order, each with a predicted
\* success rate and a confidence in [0, 1]
C30_PredictionsCountedAndInUnit ==
    PredictionsAnswered =>
        /\ reply.kind = "list"
        /\ Len(reply.v) = request.limit
        /\ \A i \in 1..request.limit :
              /\ reply.v[i].proposal_id = "prop_" \o ToString(i)
              /\ reply.v[i].predicted_success_rate \in 0..100
              /\ reply.v[i].confidence \in 0..100

====
